---------------------------- MODULE Spec2Model ----------------------------
(***************************************************************************)
(* A model of pglog: the event spooler of pglog_spool.c (the emit_log hook *)
(* that formats events and appends them to rotating segment files) and the *)
(* foreign-data-wrapper scan of pglog.c / pglog_helpers.c (file discovery  *)
(* and the sequential read cursor).                                        *)
(*                                                                         *)
(* C strings are TLA+ strings; a FILE* is an index into the sequence of    *)
(* streams the process has opened (0 is the NULL pointer); the file system *)
(* is a sequence of files in creation order.                               *)
(***************************************************************************)
EXTENDS Integers, Sequences, FiniteSets, TLC

(***************************************************************************)
(* Bounds of the model.                                                    *)
(***************************************************************************)
\* events delivered to the hook in one behaviour
MaxEvents == 2
\* seconds that pass in one behaviour
MaxClock == 1
\* assignments of pglog.directory in one behaviour
MaxRequests == 2
\* records in one file of the log directory
MaxRows == 3
\* files in the log directory of a scan
MaxScanFiles == 2
\* calls of ReScan in one scan
MaxRescans == 1
MaxEnds == 2
MaxFormats == 3
MaxLen == 4
MaxEstimates == 2
\* entries in the directory the catalog lists
MaxDirEntries == 19
\* entries of that directory that are not csv logs
MaxOther == 2

(***************************************************************************)
(* Error levels of the host (elog.h), as the spooler's tables name them.   *)
(***************************************************************************)
DEBUG5 == 10
DEBUG4 == 11
DEBUG3 == 12
DEBUG2 == 13
DEBUG1 == 14
LOG == 15
COMMERROR == 16
INFO == 17
NOTICE == 18
WARNING == 19
ERROR == 20
FATAL == 21
PANIC == 22

\* the NULL char pointer, distinct from the empty string ""
NULL == "(null)"

\* the NULL FILE pointer
NOFILE == 0
InvalidBackendId == -1
BLCKSZ == 8192
MAXIMUM_ALIGNOF == 8
SizeofHeapTupleHeaderData == 24

VARIABLES
    \* ---- pglog_spool.c: GUCs and file-scope statics
    Pglog_directory,            \* char *, NULL or a path
    Pglog_min_messages,         \* int, an error level
    Pglog_spooling_enabled,     \* bool
    prev_emit_log_hook,         \* the hook found installed at init, or NULL
    emit_log_hook,              \* the host's hook pointer
    currentSpoolfile,           \* FILE *: index into streams, NOFILE for NULL
    currentSpoolfileName,       \* char *
    spoolfileRotationRequired,  \* bool
    log_line_number,            \* fmtLogLine's static counter
    log_my_pid,                 \* fmtLogLine's static pid
    \* ---- the environment of the spooler
    MyProcPid,                  \* the process id
    log_min_messages,           \* the host's own threshold for its server log
    clock,                      \* wall clock, in whole seconds
    streams,                    \* every FILE the process has fopen()ed
    disk,                       \* the files on disk, in creation order
    crashed,                    \* the process was aborted
    \* ---- observation of the run
    nEvents,                    \* events delivered to pglog_emit_log_hook
    nRequests,                  \* assignments of pglog.directory so far
    lastCall,                   \* the last top-level call of the hook
    \* ---- pglog.c: planner and executor state of one foreign scan
    plan_filenames,             \* PgLogPlanState.filenames
    plan_options,               \* ForeignScan.fdw_private
    fdw_state,                  \* ForeignScanState.fdw_state: NULL or "festate"
    filenames,                  \* PgLogExecutionState.filenames
    cstate,                     \* PgLogExecutionState.cstate: index into copies
    copies,                     \* every CopyState the scan has begun
    scanPhase,                  \* "unopened", "explain", "open", "ended"
    returned,                   \* the rows this pass has stored in the slot
    exhausted,                  \* the last Iterate returned the empty slot
    nRescans,                   \* calls of ReScan so far
    \* ---- pglog_spool.c: the formatter's time caches, and what it formatted
    formatted_log_time,         \* char[]: "" or the cached event timestamp
    formatted_start_time,       \* char[]: "" or the cached session start
    numbers,                    \* pid and line number of each record formatted
    lastLine,                   \* the last record formatted, with its inputs
    csvCell,                    \* a text and the cell appendCSVLiteral made of it
    \* ---- pglog_helpers.c: the planner's view of the foreign table
    baserel,                    \* RelOptInfo: pages, tuples, width, rows
    plan_pages,                 \* PgLogPlanState.pages
    plan_ntuples,               \* PgLogPlanState.ntuples
    estimated                   \* the estimates made so far, with their files

spoolVars == << Pglog_directory, Pglog_min_messages, Pglog_spooling_enabled,
                prev_emit_log_hook, emit_log_hook, currentSpoolfile,
                currentSpoolfileName, spoolfileRotationRequired,
                log_line_number, log_my_pid, MyProcPid, log_min_messages,
                clock, streams, disk, crashed, nEvents, nRequests, lastCall >>

scanVars == << plan_filenames, plan_options, fdw_state, filenames, cstate,
               copies, scanPhase, returned, exhausted, nRescans >>

fmtVars == << formatted_log_time, formatted_start_time, numbers, lastLine,
              csvCell >>

planVars == << baserel, plan_pages, plan_ntuples, estimated >>

vars == << spoolVars, scanVars, fmtVars, planVars >>

(***************************************************************************)
(* Inputs.                                                                 *)
(***************************************************************************)
\* directories pglog.directory is set to ("" is the empty setting)
Directories == { NULL, "", "/spool" }

\* levels of the events the host reports
EventLevels == { WARNING, LOG }

\* values pglog.min_messages is set to
MinLevels == { WARNING, LOG }

\* what the environment answers during one call of the hook:
\*   fopenOK  fopen() of the segment succeeds
\*   rc       how much of the record fwrite() writes
\*   ub       what a second fclose() of the same FILE does
Inputs == [ fopenOK : BOOLEAN,
            rc      : { "none", "partial", "full" },
            ub      : { "noop", "crash" } ]

\* the events the host reports
Events == [ elevel : EventLevels, message : { "msg" } ]

\* the spooler's own diagnostics
DiagOpen == [ elevel |-> LOG, message |-> "could not open log file" ]
DiagWrite == [ elevel |-> LOG, message |-> "could not write log file" ]

(***************************************************************************)
(* The state one call of the hook reads and writes, as a record.           *)
(***************************************************************************)
Snapshot ==
    [ enabled  |-> Pglog_spooling_enabled,
      file     |-> currentSpoolfile,
      name     |-> currentSpoolfileName,
      line     |-> log_line_number,
      mypid    |-> log_my_pid,
      logtime  |-> formatted_log_time,
      starttime |-> formatted_start_time,
      streams  |-> streams,
      disk     |-> disk,
      crashed  |-> crashed,
      trace    |-> << >>,      \* the exit each (nested) call took, in order
      rotated  |-> FALSE,      \* rotateSpoolfile ran
      sink     |-> << >> ]     \* the events handed to the previous hook


(***************************************************************************)
(* libc and host primitives the spooler calls.                             *)
(***************************************************************************)
\* time(NULL): the wall clock in whole seconds
time_now == clock

\* strlen() of a C string
strlen(str) == Len(str)

\* the index in d of the file at path, 0 when there is none
FileAt(d, path) ==
    IF \E i \in DOMAIN d : d[i].path = path
    THEN CHOOSE i \in DOMAIN d : d[i].path = path
    ELSE 0

\* fclose(fh): closes an open stream; on a stream that is already closed the
\* behaviour is undefined (the FILE was freed): the call either goes
\* unnoticed or the allocator aborts the process.
fclose(s, fh, in) ==
    IF s.streams[fh].open
    THEN [s EXCEPT !.streams[fh].open = FALSE]
    ELSE IF in.ub = "crash" THEN [s EXCEPT !.crashed = TRUE] ELSE s

\* fopen(filename, "a"): creates the file when it does not exist and
\* returns a new stream on it; the stream remembers which rotation request
\* was the latest when it was opened.
fopen_a(s, filename) ==
    LET d == IF FileAt(s.disk, filename) = 0
             THEN Append(s.disk, [path |-> filename, data |-> << >>])
             ELSE s.disk
        fh == [path |-> filename, open |-> TRUE, req |-> nRequests,
               wrote |-> FALSE]
    IN  [s EXCEPT !.disk = d, !.streams = Append(@, fh)]

\* how many cells of buf an fwrite() answering rc writes
Written(buf, rc) ==
    CASE rc = "full"    -> Len(buf)
      [] rc = "partial" -> 1
      [] OTHER          -> 0

\* fwrite(buf, 1, len, fh): appends the first n cells of buf to the file
\* behind the stream
\* behind the stream; on a closed stream the behaviour is undefined, as for
\* fclose
fwrite(s, buf, n, fh, in) ==
    LET i == FileAt(s.disk, s.streams[fh].path)
    IN  IF ~s.streams[fh].open
        THEN IF in.ub = "crash" THEN [s EXCEPT !.crashed = TRUE] ELSE s
        ELSE IF n = 0 THEN s
        ELSE [s EXCEPT !.disk[i].data = Append(@, SubSeq(buf, 1, n)),
                       !.streams[fh].wrote = @ \/ n = Len(buf)]

(***************************************************************************)
(* pglog_spool.c                                                           *)
(***************************************************************************)
\* pg_strftime("%Y-%m-%d_%H%M%S") of a time in seconds
StrfTime(timestamp) == "2021-01-01_00000" \o ToString(timestamp)

getSpoolfileName(path, timestamp) ==
    path \o "/" \o "pglog-" \o StrfTime(timestamp) \o ".dat"

\* a test by the numbers of the levels alone
is_log_level_output_Plain(elevel, log_min_level) == elevel >= log_min_level

\* is_log_level_output: is elevel at or above log_min_level, LOG sorting
\* between ERROR and FATAL?
is_log_level_output(elevel, log_min_level) ==
    IF elevel = LOG \/ elevel = COMMERROR
    THEN log_min_level = LOG \/ log_min_level <= ERROR
    ELSE IF log_min_level = LOG
         THEN elevel >= FATAL
         ELSE elevel >= log_min_level

error_severity(elevel) ==
    CASE elevel \in { DEBUG1, DEBUG2, DEBUG3, DEBUG4, DEBUG5 } -> "DEBUG"
      [] elevel \in { LOG, COMMERROR } -> "LOG"
      [] elevel = INFO -> "INFO"
      [] elevel = NOTICE -> "NOTICE"
      [] elevel = WARNING -> "WARNING"
      [] elevel = ERROR -> "ERROR"
      [] elevel = FATAL -> "FATAL"
      [] elevel = PANIC -> "PANIC"
      [] OTHER -> "???"

\* a line counter that is never reset
NextLine_NoReset(s) == [s EXCEPT !.line = @ + 1, !.mypid = MyProcPid]

\* the line counter of fmtLogLine: reset when the process id changed
NextLine(s) ==
    LET base == IF s.mypid # MyProcPid THEN 0 ELSE s.line
    IN  [s EXCEPT !.line = base + 1, !.mypid = MyProcPid]

\* pg_strftime of a time in whole seconds, with the milliseconds pasted in
\* by setup_formatted_log_time
FormatLogTime(t) == "2021-01-01 00:00:0" \o ToString(t) \o ".000 UTC"

\* setup_formatted_start_time: pg_strftime of MyStartTime
FormatStartTime == "2021-01-01 00:00:00 UTC"

\* the time caches of fmtLogLine: the start time is emptied when the process
\* id changed; either is computed when it is found empty
SetupTimes(s) ==
    LET start == IF s.mypid # MyProcPid THEN "" ELSE s.starttime
    IN  [s EXCEPT !.logtime = IF @ = "" THEN FormatLogTime(time_now) ELSE @,
                  !.starttime = IF start = "" THEN FormatStartTime
                                ELSE start]

\* the cells of the record fmtLogLine appends to buf, for the state after
\* NextLine: line number, severity, message
fmtLogLine(s, edata) ==
    << ToString(s.line), error_severity(edata.elevel), edata.message >>


\* notes the exit a call of the hook takes
Mark(s, label) == [s EXCEPT !.trace = Append(@, label)]

RECURSIVE pglog_emit_log_hook(_, _, _)

\* ereport(LOG, ...) from inside the hook: the host hands the report to
\* emit_log_hook again when the level goes to its server log
ereport(s, edata, in) ==
    IF is_log_level_output(edata.elevel, log_min_messages)
    THEN pglog_emit_log_hook(s, edata, in)
    ELSE s

\* OpenFailed with spooling switched on again once the report is out
OpenFailed_Reenable(s, in) ==
    [ ereport(Mark([s EXCEPT !.enabled = FALSE], "openfail"), DiagOpen, in)
        EXCEPT !.enabled = TRUE ]

\* openSpoolfile, fopen() failed: disable spooling, then report
OpenFailed(s, in) ==
    ereport(Mark([s EXCEPT !.enabled = FALSE], "openfail"), DiagOpen, in)

openSpoolfile(s, path, in) ==
    LET filename == getSpoolfileName(path, time_now)
    IN  IF in.fopenOK
        THEN LET o == fopen_a(s, filename)
             IN  [o EXCEPT !.file = Len(o.streams)]
        ELSE OpenFailed(s, in)

\* CloseOldFile that drops the pointer without closing the file
CloseOldFile_Leak(s, in) ==
    IF s.file # NOFILE THEN [s EXCEPT !.file = NOFILE] ELSE s

\* rotateSpoolfile, first part: close the old file, if any
CloseOldFile(s, in) ==
    IF s.file # NOFILE
    THEN LET c == fclose(s, s.file, in)
         IN  IF c.crashed THEN c ELSE [c EXCEPT !.file = NOFILE]
    ELSE s

rotateSpoolfile(s, path, in) ==
    LET c == CloseOldFile(s, in)
    IN  IF c.crashed THEN c
        ELSE openSpoolfile([c EXCEPT !.name = NULL, !.enabled = TRUE,
                                     !.rotated = TRUE], path, in)

\* an early exit that appends to the spool file before closing it
EarlyExit_Write(s, in) ==
    IF s.file # NOFILE
    THEN fclose(fwrite(s, << "diag" >>, 1, s.file, in), s.file, in)
    ELSE s

\* the hook's early exit: close the spool file, if there is one
EarlyExit(s, in) ==
    IF s.file # NOFILE THEN fclose(s, s.file, in) ELSE s

\* ShortWrite with spooling switched on again once the report is out
ShortWrite_Reenable(s, in) ==
    [ ereport(Mark([s EXCEPT !.enabled = FALSE], "short"), DiagWrite, in)
        EXCEPT !.enabled = TRUE ]

\* the hook, a short write: disable spooling, then report
ShortWrite(s, in) ==
    ereport(Mark([s EXCEPT !.enabled = FALSE], "short"), DiagWrite, in)

\* the hook, from "format the log line" to the end of the write
WriteLine(s, edata, in) ==
    LET f   == NextLine(SetupTimes(s))
        buf == fmtLogLine(f, edata)
        rc  == Written(buf, in.rc)
        w   == fwrite(f, buf, rc, f.file, in)
    IN  IF w.crashed THEN w
        ELSE IF rc # Len(buf) THEN ShortWrite(w, in)
        ELSE Mark(w, "written")

\* the hook's quickExit: call the previous hook, should it exist
CallPrevHook(s, edata) ==
    IF s.crashed THEN s
    ELSE IF prev_emit_log_hook # NULL
         THEN [s EXCEPT !.sink = Append(@, edata)]
         ELSE s

\* does the hook rotate before it writes?
NeedsRotation(s) == s.file = NOFILE \/ spoolfileRotationRequired

pglog_emit_log_hook(s, edata, in) ==
    LET body ==
          IF ~s.enabled \/ Pglog_directory = NULL \/ strlen(Pglog_directory) <= 0
          THEN EarlyExit(Mark(s, IF ~s.enabled THEN "disabled" ELSE "nodir"), in)
          ELSE IF ~is_log_level_output(edata.elevel, Pglog_min_messages)
          THEN Mark(s, "below")
          ELSE LET r == IF NeedsRotation(s)
                        THEN rotateSpoolfile(s, Pglog_directory, in)
                        ELSE s
               IN  IF r.crashed \/ r.file = NOFILE THEN r
                   ELSE WriteLine(r, edata, in)
    IN  CallPrevHook(body, edata)

(***************************************************************************)
(* The spooler as a state machine.                                         *)
(***************************************************************************)
NoCall == [ edata |-> [elevel |-> 0, message |-> ""],
            trace |-> << >>, sink |-> << >>, rotated |-> FALSE ]

\* the formatter before its first call: statics are zeroed
NoLine == [ in |-> << >>, edata |-> << >>, env |-> << >>, text |-> "" ]

\* no cell has been made
NoCell == [ done |-> FALSE, data |-> "", buf |-> "" ]

FmtIdle ==
    /\ formatted_log_time = ""
    /\ formatted_start_time = ""
    /\ numbers = << >>
    /\ lastLine = NoLine
    /\ csvCell = NoCell

SpoolInit ==
    /\ FmtIdle
    /\ Pglog_directory = NULL
    /\ Pglog_min_messages = WARNING
    /\ Pglog_spooling_enabled = TRUE
    /\ prev_emit_log_hook = NULL
    /\ emit_log_hook \in { NULL, "other_hook" }
    /\ currentSpoolfile = NOFILE
    /\ currentSpoolfileName = NULL
    /\ spoolfileRotationRequired = FALSE
    /\ log_line_number = 0
    /\ log_my_pid = 0
    /\ MyProcPid = 1
    /\ log_min_messages \in { WARNING, FATAL }
    /\ clock = 0
    /\ streams = << >>
    /\ disk = << >>
    /\ crashed = FALSE
    /\ nEvents = 0
    /\ nRequests = 0
    /\ lastCall = NoCall

\* the spooler loaded but idle, whatever the disk holds
SpoolQuiet ==
    /\ FmtIdle
    /\ Pglog_directory = NULL
    /\ Pglog_min_messages = WARNING
    /\ Pglog_spooling_enabled = TRUE
    /\ prev_emit_log_hook = NULL
    /\ emit_log_hook = NULL
    /\ currentSpoolfile = NOFILE
    /\ currentSpoolfileName = NULL
    /\ spoolfileRotationRequired = FALSE
    /\ log_line_number = 0
    /\ log_my_pid = 0
    /\ MyProcPid = 1
    /\ log_min_messages = WARNING
    /\ clock = 0
    /\ streams = << >>
    /\ crashed = FALSE
    /\ nEvents = 0
    /\ nRequests = 0
    /\ lastCall = NoCall

\* pglog_spool_init: install the hook, remembering the one found
SpoolInstall ==
    /\ ~crashed
    /\ emit_log_hook # "pglog_emit_log_hook"
    /\ prev_emit_log_hook' = emit_log_hook
    /\ emit_log_hook' = "pglog_emit_log_hook"
    /\ UNCHANGED << Pglog_directory, Pglog_min_messages, Pglog_spooling_enabled,
                    currentSpoolfile, currentSpoolfileName,
                    spoolfileRotationRequired, log_line_number, log_my_pid,
                    MyProcPid, log_min_messages, clock, streams, disk, crashed,
                    nEvents, nRequests, lastCall >>
    /\ UNCHANGED << scanVars, fmtVars, planVars >>

\* pglog_spool_fini: uninstall the hook
SpoolUninstall ==
    /\ ~crashed
    /\ emit_log_hook = "pglog_emit_log_hook"
    /\ emit_log_hook' = prev_emit_log_hook
    /\ UNCHANGED << Pglog_directory, Pglog_min_messages, Pglog_spooling_enabled,
                    prev_emit_log_hook, currentSpoolfile, currentSpoolfileName,
                    spoolfileRotationRequired, log_line_number, log_my_pid,
                    MyProcPid, log_min_messages, clock, streams, disk, crashed,
                    nEvents, nRequests, lastCall >>
    /\ UNCHANGED << scanVars, fmtVars, planVars >>

\* an assignment that closes the current segment at once
AssignDirectory_Eager ==
    /\ ~crashed
    /\ nRequests < MaxRequests
    /\ \E newval \in Directories : Pglog_directory' = newval
    /\ spoolfileRotationRequired' = TRUE
    /\ nRequests' = nRequests + 1
    /\ currentSpoolfile' = NOFILE
    /\ streams' = [ i \in DOMAIN streams |->
                      [streams[i] EXCEPT !.open = @ /\ i # currentSpoolfile] ]
    /\ UNCHANGED << Pglog_min_messages, Pglog_spooling_enabled,
                    prev_emit_log_hook, emit_log_hook,
                    currentSpoolfileName, log_line_number, log_my_pid,
                    MyProcPid, log_min_messages, clock, disk, crashed,
                    nEvents, lastCall >>
    /\ UNCHANGED << scanVars, fmtVars, planVars >>

\* the host assigns pglog.directory and calls guc_assign_directory
AssignDirectory ==
    /\ ~crashed
    /\ nRequests < MaxRequests
    /\ \E newval \in Directories : Pglog_directory' = newval
    /\ spoolfileRotationRequired' = TRUE
    /\ nRequests' = nRequests + 1
    /\ UNCHANGED << Pglog_min_messages, Pglog_spooling_enabled,
                    prev_emit_log_hook, emit_log_hook, currentSpoolfile,
                    currentSpoolfileName, log_line_number, log_my_pid,
                    MyProcPid, log_min_messages, clock, streams, disk, crashed,
                    nEvents, lastCall >>
    /\ UNCHANGED << scanVars, fmtVars, planVars >>

\* the host assigns pglog.min_messages
AssignMinMessages ==
    /\ ~crashed
    /\ \E newval \in MinLevels :
          /\ newval # Pglog_min_messages
          /\ Pglog_min_messages' = newval
    /\ UNCHANGED << Pglog_directory, Pglog_spooling_enabled,
                    prev_emit_log_hook, emit_log_hook, currentSpoolfile,
                    currentSpoolfileName, spoolfileRotationRequired,
                    log_line_number, log_my_pid, MyProcPid, log_min_messages,
                    clock, streams, disk, crashed, nEvents, nRequests,
                    lastCall >>
    /\ UNCHANGED << scanVars, fmtVars, planVars >>

\* a second passes: events with no Tick between them fall in the same second
Tick ==
    /\ ~crashed
    /\ clock < MaxClock
    /\ clock' = clock + 1
    /\ UNCHANGED << Pglog_directory, Pglog_min_messages, Pglog_spooling_enabled,
                    prev_emit_log_hook, emit_log_hook, currentSpoolfile,
                    currentSpoolfileName, spoolfileRotationRequired,
                    log_line_number, log_my_pid, MyProcPid, log_min_messages,
                    streams, disk, crashed, nEvents, nRequests, lastCall >>
    /\ UNCHANGED << scanVars, fmtVars, planVars >>

\* the host reports an event out of the set reported, and the environment
\* answers as one of answers: one top-level call of pglog_emit_log_hook
EmitFrom(reported, answers) ==
    /\ ~crashed
    /\ emit_log_hook = "pglog_emit_log_hook"
    /\ nEvents < MaxEvents
    /\ \E edata \in reported, in \in answers :
          LET r == pglog_emit_log_hook(Snapshot, edata, in)
          IN  /\ Pglog_spooling_enabled' = r.enabled
              /\ currentSpoolfile' = r.file
              /\ currentSpoolfileName' = r.name
              /\ log_line_number' = r.line
              /\ log_my_pid' = r.mypid
              /\ formatted_log_time' = r.logtime
              /\ formatted_start_time' = r.starttime
              /\ streams' = r.streams
              /\ disk' = r.disk
              /\ crashed' = r.crashed
              /\ lastCall' = [ edata |-> edata,
                               trace |-> r.trace, sink |-> r.sink,
                               rotated |-> r.rotated ]
    /\ nEvents' = nEvents + 1
    /\ UNCHANGED << Pglog_directory, Pglog_min_messages, prev_emit_log_hook,
                    emit_log_hook, spoolfileRotationRequired, MyProcPid,
                    log_min_messages, clock, nRequests >>
    /\ UNCHANGED << scanVars, numbers, lastLine, csvCell, planVars >>

EmitLog == EmitFrom(Events, Inputs)

\* no scan is running
ScanIdle ==
    /\ plan_pages = 0
    /\ plan_ntuples = 0
    /\ estimated = << >>
    /\ baserel = [ pages |-> 0, tuples |-> 0, width |-> 200,
                   sel |-> [ num |-> 1, den |-> 1 ], rows |-> 0 ]
    /\ plan_filenames = << >>
    /\ plan_options = << >>
    /\ fdw_state = NULL
    /\ filenames = << >>
    /\ cstate = 0
    /\ copies = << >>
    /\ scanPhase = "unopened"
    /\ returned = << >>
    /\ exhausted = FALSE
    /\ nRescans = 0

Init == SpoolInit /\ ScanIdle

Next ==
    \/ SpoolInstall
    \/ SpoolUninstall
    \/ AssignDirectory
    \/ AssignMinMessages
    \/ Tick
    \/ EmitLog

Spec == Init /\ [][Next]_vars


(***************************************************************************)
(* The spooler under every setting of pglog.min_messages and events of     *)
(* every level.                                                            *)
(***************************************************************************)
\* server_message_level_options: the values pglog.min_messages takes
AllMinLevels ==
    { DEBUG5, DEBUG4, DEBUG3, DEBUG2, DEBUG1, INFO, NOTICE, WARNING, ERROR,
      LOG, FATAL, PANIC }

\* the levels of the events a backend reports
AllEventLevels == AllMinLevels \cup { COMMERROR }

AllEvents == [ elevel : AllEventLevels, message : { "msg" } ]

\* the settings are read at load time
FilterInit ==
    /\ FmtIdle
    /\ ScanIdle
    /\ Pglog_directory = NULL
    /\ Pglog_min_messages \in AllMinLevels
    /\ Pglog_spooling_enabled = TRUE
    /\ prev_emit_log_hook = NULL
    /\ emit_log_hook = NULL
    /\ currentSpoolfile = NOFILE
    /\ currentSpoolfileName = NULL
    /\ spoolfileRotationRequired = FALSE
    /\ log_line_number = 0
    /\ log_my_pid = 0
    /\ MyProcPid = 1
    /\ log_min_messages = WARNING
    /\ clock = 0
    /\ streams = << >>
    /\ disk = << >>
    /\ crashed = FALSE
    /\ nEvents = 0
    /\ nRequests = 0
    /\ lastCall = NoCall

\* the environment lets every open, write and close succeed
Success == { in \in Inputs : in.fopenOK /\ in.rc = "full" /\ in.ub = "noop" }

EmitAnyLevel == EmitFrom(AllEvents, Success)

FilterNext ==
    \/ SpoolInstall
    \/ AssignDirectory
    \/ EmitAnyLevel

SpecFilter == FilterInit /\ [][FilterNext]_vars


(***************************************************************************)
(* pglog_spool.c: the text of a record, as fmtLogLine appends it to buf.   *)
(* The spooler's state machine above keeps three cells of it; here is the  *)
(* whole line.  edata is the ErrorData, env the host's globals it reads.   *)
(***************************************************************************)
\* the characters of data as they are
DoubleQuotes_None(data) == data

\* appendStringInfoCharMacro(buf, '"') for each '"' of data, before the
\* character itself
RECURSIVE DoubleQuotes(_)
DoubleQuotes(data) ==
    IF data = "" THEN ""
    ELSE LET c == SubSeq(data, 1, 1)
         IN  (IF c = "\"" THEN "\"\"" ELSE c)
                 \o DoubleQuotes(SubSeq(data, 2, Len(data)))

\* appendCSVLiteral: nothing for NULL, else data between quotes with each
\* quote of it doubled
appendCSVLiteral(buf, data) ==
    IF data = NULL THEN buf ELSE buf \o "\"" \o DoubleQuotes(data) \o "\""

\* printf's %x of a non-negative number
RECURSIVE Hex(_)
Hex(n) ==
    LET d == n % 16
        c == IF d < 10 THEN ToString(d)
             ELSE SubSeq("abcdef", d - 9, d - 9)
    IN  IF n < 16 THEN c ELSE Hex(n \div 16) \o c

\* unpack_sql_state of the codes the events carry
unpack_sql_state(sqlerrcode) ==
    IF sqlerrcode = 0 THEN "00000" ELSE "XX000"

\* the cell of the remote host and port: between quotes, not escaped
RemoteCell(port) ==
    IF port.set /\ port.remote_host # NULL
    THEN "\"" \o port.remote_host
           \o (IF port.remote_port # NULL /\ port.remote_port # ""
               THEN ":" \o port.remote_port ELSE "")
           \o "\""
    ELSE ""

\* the cell of the error location, written at verbose error verbosity
LocationCell(edata, env) ==
    IF env.verbose
    THEN appendCSVLiteral("",
            IF edata.funcname # NULL /\ edata.filename # NULL
            THEN edata.funcname \o ", " \o edata.filename \o ":"
                   \o ToString(edata.lineno)
            ELSE IF edata.filename # NULL
            THEN edata.filename \o ":" \o ToString(edata.lineno)
            ELSE "")
    ELSE ""

\* a statement printed whether or not the event hides it
print_stmt_IgnoreHide(edata, env) ==
    /\ is_log_level_output(edata.elevel, env.log_min_error_statement)
    /\ env.debug_query_string # NULL

\* is the statement of the session printed with this event?
print_stmt(edata, env) ==
    /\ is_log_level_output(edata.elevel, env.log_min_error_statement)
    /\ env.debug_query_string # NULL
    /\ ~edata.hide_stmt

\* the cells of the line in order, each as the text appended to buf; s is
\* the formatter's state after NextLine and SetupTimes
LogCells(s, edata, env) ==
    << s.logtime,
       IF env.MyProcPort.set
       THEN appendCSVLiteral("", env.MyProcPort.user_name) ELSE "",
       IF env.MyProcPort.set
       THEN appendCSVLiteral("", env.MyProcPort.database_name) ELSE "",
       IF MyProcPid # 0 THEN ToString(MyProcPid) ELSE "",
       RemoteCell(env.MyProcPort),
       Hex(env.MyStartTime) \o "." \o Hex(MyProcPid),
       ToString(s.line),
       IF env.MyProcPort.set
       THEN appendCSVLiteral("", env.ps_display) ELSE "",
       s.starttime,
       IF env.MyProc.set /\ env.MyProc.backendId # InvalidBackendId
       THEN ToString(env.MyProc.backendId) \o "/" \o ToString(env.MyProc.lxid)
       ELSE "",
       ToString(env.xid),
       error_severity(edata.elevel),
       unpack_sql_state(edata.sqlerrcode),
       appendCSVLiteral("", edata.message),
       IF edata.detail_log # NULL
       THEN appendCSVLiteral("", edata.detail_log)
       ELSE appendCSVLiteral("", edata.detail),
       appendCSVLiteral("", edata.hint),
       appendCSVLiteral("", edata.internalquery),
       IF edata.internalpos > 0 /\ edata.internalquery # NULL
       THEN ToString(edata.internalpos) ELSE "",
       appendCSVLiteral("", edata.context),
       IF print_stmt(edata, env)
       THEN appendCSVLiteral("", env.debug_query_string) ELSE "",
       IF print_stmt(edata, env) /\ edata.cursorpos > 0
       THEN ToString(edata.cursorpos) ELSE "",
       LocationCell(edata, env),
       IF env.application_name # NULL
       THEN appendCSVLiteral("", env.application_name) ELSE "" >>

\* cells joined by commas, an empty cell left out with its comma
RECURSIVE JoinCells_SkipEmpty(_)
JoinCells_SkipEmpty(cells) ==
    IF Len(cells) = 1 THEN cells[1]
    ELSE IF cells[1] = "" THEN JoinCells_SkipEmpty(Tail(cells))
    ELSE cells[1] \o "," \o JoinCells_SkipEmpty(Tail(cells))

\* cells joined by commas
RECURSIVE JoinCells(_)
JoinCells(cells) ==
    IF Len(cells) = 1 THEN cells[1]
    ELSE cells[1] \o "," \o JoinCells(Tail(cells))

\* the line fmtLogLine leaves in buf
LogLine(s, edata, env) == JoinCells(LogCells(s, edata, env)) \o "\n"


(***************************************************************************)
(* The formatter alone, over events and host globals of every shape: each  *)
(* optional field is absent (NULL), empty or a text; a profile gives all   *)
(* fields one kind and one field another.                                  *)
(***************************************************************************)
OptFields ==
    { "MyProcPort", "user_name", "database_name", "remote_host",
      "remote_port", "ps_display", "MyProc", "message", "detail_log",
      "detail", "hint", "internalquery", "internalpos", "context",
      "verbose", "funcname", "filename", "application_name" }

Kinds == { "absent", "empty", "text" }

FmtProfiles ==
    { p \in [ base : Kinds, odd : OptFields \cup { "none" }, oddKind : Kinds ] :
        IF p.odd = "none" THEN p.oddKind = p.base ELSE p.oddKind # p.base }

\* what decides whether the statement and its cursor position are printed
StmtInputs ==
    [ elevel : { WARNING, ERROR }, hide_stmt : BOOLEAN,
      debug_query_string : { NULL, "select \"a\", 1" }, cursorpos : { 0, 8 } ]

\* the inputs of one call: every profile under one choice of the statement
\* inputs, and every choice of the statement inputs under the profiles with
\* all fields of one kind
FmtInputs ==
    { in \in [ p : FmtProfiles, q : StmtInputs ] :
        \/ in.p.odd = "none"
        \/ ( /\ in.q.elevel = ERROR /\ ~in.q.hide_stmt
             /\ in.q.debug_query_string # NULL /\ in.q.cursorpos > 0 ) }

KindOf(p, field) == IF field = p.odd THEN p.oddKind ELSE p.base

\* a text with the characters CSV gives a meaning to
Tricky == "x\"y,z\nw\"\""

\* the value of a string field under profile p
TextOf(p, field) ==
    CASE KindOf(p, field) = "absent" -> NULL
      [] KindOf(p, field) = "empty"  -> ""
      [] KindOf(p, field) = "text"   ->
            CASE field = "remote_host" -> "10.0.0.1"
              [] field = "remote_port" -> "5432"
              [] OTHER -> Tricky

\* is a switch (a pointer or a number, not a string) on under profile p?
IsOn(p, field) == KindOf(p, field) # "absent"

\* the ErrorData of profile p and statement inputs q
FmtEvent(p, q) ==
    [ elevel        |-> q.elevel,
      sqlerrcode    |-> 0,
      message       |-> TextOf(p, "message"),
      detail        |-> TextOf(p, "detail"),
      detail_log    |-> TextOf(p, "detail_log"),
      hint          |-> TextOf(p, "hint"),
      internalquery |-> TextOf(p, "internalquery"),
      internalpos   |-> IF IsOn(p, "internalpos") THEN 3 ELSE 0,
      context       |-> TextOf(p, "context"),
      hide_stmt     |-> q.hide_stmt,
      cursorpos     |-> q.cursorpos,
      funcname      |-> TextOf(p, "funcname"),
      filename      |-> TextOf(p, "filename"),
      lineno        |-> 42 ]

\* the host's globals of profile p and statement inputs q; a pointer to a
\* struct is the struct with the flag set, which says it is not NULL
FmtEnv(p, q) ==
    [ MyProcPort |-> [ set           |-> IsOn(p, "MyProcPort"),
                       user_name     |-> TextOf(p, "user_name"),
                       database_name |-> TextOf(p, "database_name"),
                       remote_host   |-> TextOf(p, "remote_host"),
                       remote_port   |-> TextOf(p, "remote_port") ],
      ps_display |-> IF KindOf(p, "ps_display") = "text" THEN Tricky ELSE "",
      MyProc     |-> [ set |-> IsOn(p, "MyProc"),
                       backendId |-> IF KindOf(p, "MyProc") = "empty"
                                     THEN InvalidBackendId ELSE 3,
                       lxid |-> 7 ],
      MyStartTime |-> 255,
      xid        |-> 0,
      debug_query_string |-> q.debug_query_string,
      log_min_error_statement |-> ERROR,
      verbose    |-> IsOn(p, "verbose"),
      application_name |-> TextOf(p, "application_name") ]

\* the process ids a backend may run under
Pids == { 1, 2 }

\* fmtLogLine(buf, edata): one record is formatted.  The events of one run
\* have the shape of its first event.
FormatEvent ==
    /\ Len(numbers) < MaxFormats
    /\ \E in \in IF lastLine = NoLine THEN FmtInputs ELSE { lastLine.in } :
          LET edata == FmtEvent(in.p, in.q)
              env   == FmtEnv(in.p, in.q)
              s     == NextLine(SetupTimes(Snapshot))
          IN  /\ log_line_number' = s.line
              /\ log_my_pid' = s.mypid
              /\ formatted_log_time' = s.logtime
              /\ formatted_start_time' = s.starttime
              /\ numbers' = Append(numbers, [ pid    |-> MyProcPid,
                                              number |-> s.line ])
              /\ lastLine' = [ in |-> in, edata |-> edata, env |-> env,
                               text  |-> LogLine(s, edata, env) ]
    /\ UNCHANGED << Pglog_directory, Pglog_min_messages,
                    Pglog_spooling_enabled, prev_emit_log_hook,
                    emit_log_hook, currentSpoolfile, currentSpoolfileName,
                    spoolfileRotationRequired, MyProcPid, log_min_messages,
                    clock, streams, disk, crashed, nEvents, nRequests,
                    lastCall, csvCell >>
    /\ UNCHANGED << scanVars, planVars >>

\* the postmaster forks: the child runs under another process id, with the
\* statics it inherited
ProcessForked ==
    /\ \E pid \in Pids \ { MyProcPid } : MyProcPid' = pid
    /\ UNCHANGED << Pglog_directory, Pglog_min_messages,
                    Pglog_spooling_enabled, prev_emit_log_hook,
                    emit_log_hook, currentSpoolfile, currentSpoolfileName,
                    spoolfileRotationRequired, log_line_number, log_my_pid,
                    log_min_messages, clock, streams, disk, crashed, nEvents,
                    nRequests, lastCall >>
    /\ UNCHANGED << scanVars, fmtVars, planVars >>

FormatInit == SpoolQuiet /\ disk = << >> /\ ScanIdle

FormatNext == FormatEvent \/ ProcessForked

SpecFormat == FormatInit /\ [][FormatNext]_vars

\* the formatter alone while time passes in one process
ClockNext == FormatEvent \/ Tick

SpecClock == FormatInit /\ [][ClockNext]_vars


(***************************************************************************)
(* appendCSVLiteral alone, over every text of up to MaxLen characters of   *)
(* an alphabet with the quote, the comma and the newline.                  *)
(***************************************************************************)
Alphabet == { "a", "\"", ",", "\n" }

RECURSIVE TextsOfLen(_)
TextsOfLen(n) ==
    IF n = 0 THEN { "" }
    ELSE { c \o w : c \in Alphabet, w \in TextsOfLen(n - 1) }

Texts == UNION { TextsOfLen(n) : n \in 0 .. MaxLen }

\* appendCSVLiteral(buf, data) on an empty buf
AppendCell ==
    /\ ~csvCell.done
    /\ \E data \in Texts \cup { NULL } :
          csvCell' = [ done |-> TRUE, data |-> data,
                       buf  |-> appendCSVLiteral("", data) ]
    /\ UNCHANGED << spoolVars, scanVars, planVars, formatted_log_time,
                    formatted_start_time, numbers, lastLine >>

CsvInit == SpoolQuiet /\ disk = << >> /\ ScanIdle

CsvNext == AppendCell

SpecCsv == CsvInit /\ [][CsvNext]_vars


(***************************************************************************)
(* pglog_helpers.c: file discovery                                         *)
(***************************************************************************)
MAX_LOG_FILES == 16

\* the host's log_directory setting
Log_directory == "pg_log"

\* d_name of the file at path when it is an entry of directory dir, else ""
EntryName(dir, path) ==
    IF Len(path) > Len(dir) + 1 /\ SubSeq(path, 1, Len(dir) + 1) = dir \o "/"
    THEN SubSeq(path, Len(dir) + 2, Len(path))
    ELSE ""

\* ReadDir: the names of the entries of dir, in enumeration order
RECURSIVE ReadDir(_, _)
ReadDir(d, dir) ==
    IF d = << >> THEN << >>
    ELSE LET name == EntryName(dir, Head(d).path)
         IN  IF name = "" THEN ReadDir(Tail(d), dir)
             ELSE << name >> \o ReadDir(Tail(d), dir)

\* IsLogFileName without the comparison of the suffix
IsLogFileName_AnySuffix(d_name) == Len(d_name) > 4

\* initLogFileNames, the test of one entry: "Look for CSV files"
IsLogFileName(d_name) ==
    LET length == Len(d_name)
    IN  length > 4 /\ SubSeq(d_name, length - 3, length) = ".csv"

\* initLogFileNames, the loop over the entries: i files are in acc
RECURSIVE CollectLogFiles(_, _, _)
CollectLogFiles(entries, dir, acc) ==
    IF entries = << >> THEN acc
    ELSE LET found == IF IsLogFileName(Head(entries))
                      THEN Append(acc, dir \o "/" \o Head(entries))
                      ELSE acc
         IN  IF Len(found) = MAX_LOG_FILES THEN found
             ELSE CollectLogFiles(Tail(entries), dir, found)

\* initLogFileNames on directory dir: an array of MAX_LOG_FILES names, the
\* unused ones NULL
ListLogFiles(d, dir) ==
    LET found == CollectLogFiles(ReadDir(d, dir), dir, << >>)
    IN  [ i \in 1 .. MAX_LOG_FILES |->
            IF i <= Len(found) THEN found[i] ELSE NULL ]

initLogFileNames == ListLogFiles(disk, Log_directory)

\* isLastLogFile, for the 0-based index i: no caller in pglog.c
isLastLogFile(names, i) ==
    ~(i < MAX_LOG_FILES - 1 /\ names[i + 2] # NULL)

(***************************************************************************)
(* pglog_helpers.c: estimate_size.  A file size (off_t, 64 bits) is        *)
(* wraps * BLCKSZ * 2^32 + bytes with bytes < 2^31; doubles are fractions  *)
(* num / den of integers.                                                  *)
(***************************************************************************)
\* MAXALIGN(len)
MAXALIGN(len) ==
    ((len + MAXIMUM_ALIGNOF - 1) \div MAXIMUM_ALIGNOF) * MAXIMUM_ALIGNOF

\* rint(num / den): to the nearest integer, a tie to the even one
rint(num, den) ==
    LET q == num \div den
        r == num % den
    IN  IF 2 * r < den THEN q
        ELSE IF 2 * r > den THEN q + 1
        ELSE IF q % 2 = 0 THEN q ELSE q + 1

\* clamp_row_est(num / den): 1 for a value of at most 1, else rint
clamp_row_est(num, den) == IF num <= den THEN 1 ELSE rint(num, den)

\* stat(filenames[0]) fails: the default size is taken
DefaultSize == [ wraps |-> 0, bytes |-> 10 * BLCKSZ ]

\* the size stat() gives for the file at path on disk d, DefaultSize when
\* stat() fails; a record takes a byte for each character, separator and
\* newline
RECURSIVE RecordBytes(_)
RecordBytes(rec) ==
    IF rec = << >> THEN 0 ELSE Len(Head(rec)) + 1 + RecordBytes(Tail(rec))

RECURSIVE DataBytes(_)
DataBytes(data) ==
    IF data = << >> THEN 0 ELSE RecordBytes(Head(data)) + DataBytes(Tail(data))

StatSize(d, path) ==
    IF path = NULL \/ FileAt(d, path) = 0 THEN DefaultSize
    ELSE [ wraps |-> 0, bytes |-> DataBytes(d[FileAt(d, path)].data) ]

\* (st_size + (BLCKSZ - 1)) / BLCKSZ, stored in a BlockNumber of 32 bits:
\* wraps * 2^32 + (bytes + BLCKSZ - 1) / BLCKSZ, modulo 2^32
PageCount(st_size) == (st_size.bytes + (BLCKSZ - 1)) \div BLCKSZ

\* the tuple width estimate_size takes without statistics, with the header
\* left out
TupleWidth_NoHeader(width) == MAXALIGN(width)

\* the tuple width estimate_size takes without statistics
TupleWidth(width) == MAXALIGN(width) + MAXALIGN(SizeofHeapTupleHeaderData)

\* estimate_size(root, baserel, fdw_private) for a first file of size
\* st_size: the pages and tuples of fdw_private and the rows of baserel.
\* rel.sel is the selectivity of the restriction clauses, a fraction.
\* Without statistics the size is taken below BLCKSZ * 2^32 (wraps = 0).
estimate_size(rel, st_size) ==
    LET p       == PageCount(st_size)
        pages   == IF p < 1 THEN 1 ELSE p
        ntuples == IF rel.pages > 0
                   THEN clamp_row_est(rel.tuples * pages, rel.pages)
                   ELSE clamp_row_est(st_size.bytes, TupleWidth(rel.width))
    IN  [ pages   |-> pages,
          ntuples |-> ntuples,
          rows    |-> clamp_row_est(ntuples * rel.sel.num, rel.sel.den) ]

(***************************************************************************)
(* The host's COPY reader (BeginCopyFrom, NextCopyFrom, EndCopyFrom), as   *)
(* pglog.c calls it.  A CopyState is an index into copies.                 *)
(***************************************************************************)
\* the k-th record of a log file
LogRecord(k) == << ToString(k), "LOG", "msg" >>

\* a line NextCopyFrom cannot decode into the table's columns
BadRecord == << "garbage" >>

\* NextCopyFrom raises an ERROR on a record that has not the table's columns
IsMalformed(rec) == Len(rec) # Len(LogRecord(1))

\* is option among the options of a reader?
HasOption(options, option) ==
    \E i \in DOMAIN options : options[i] = option

\* the fields NextCopyFrom splits a line of a log file into: its cells under
\* the csv format; under the default format, text, fields end at tabs, of
\* which the line has none, and the whole line is one field
Fields(rec, options) ==
    IF HasOption(options, "format csv") THEN rec ELSE << rec >>

\* BeginCopyFrom(rel, filename, false, NIL, options): a reader at the start
\* of the file; a NULL filename makes it a reader of the client's input
BeginCopyFrom(cs, filename, options) ==
    Append(cs, [filename |-> filename, pos |-> 0, open |-> TRUE,
                options |-> options, ends |-> 0])

\* the records NextCopyFrom can still read from reader c
Remaining(d, c) ==
    IF c.filename = NULL \/ FileAt(d, c.filename) = 0 THEN 0
    ELSE Len(d[FileAt(d, c.filename)].data) - c.pos

\* EndCopyFrom(cstate): closes the file and frees the reader
EndCopyFrom(cs, c) == [cs EXCEPT ![c].open = FALSE, ![c].ends = @ + 1]

(***************************************************************************)
(* pglog.c: the scan callbacks                                             *)
(***************************************************************************)
\* the planner has estimated nothing
PlanIdle ==
    /\ plan_pages = 0
    /\ plan_ntuples = 0
    /\ estimated = << >>

\* a foreign table that was never analyzed, read whole
NewRel ==
    [ pages |-> 0, tuples |-> 0, width |-> 200,
      sel |-> [ num |-> 1, den |-> 1 ], rows |-> 0 ]

\* pglogGetForeignRelSize: the planner lists the log directory and
\* estimates the size of the table from the first file of the list
GetForeignRelSize ==
    /\ plan_filenames' = initLogFileNames
    /\ LET e == estimate_size(baserel,
                              StatSize(disk, initLogFileNames[1]))
       IN  /\ plan_pages' = e.pages
           /\ plan_ntuples' = e.ntuples
           /\ baserel' = [baserel EXCEPT !.rows = e.rows]
    /\ UNCHANGED << plan_options, fdw_state, filenames, cstate, copies,
                    scanPhase, returned, exhausted, nRescans, estimated >>
    /\ UNCHANGED << spoolVars, fmtVars >>

\* the options pglogBeginForeignScan hands to the reader
BeginOptions == << "format csv" >> \o plan_options

\* the file pglogBeginForeignScan opens: filenames[0]
FirstFile(names) == names[1]

\* pglogBeginForeignScan
BeginForeignScan ==
    /\ scanPhase = "unopened"
    /\ \E explainOnly \in BOOLEAN :
          IF explainOnly
          THEN /\ scanPhase' = "explain"
               /\ UNCHANGED << fdw_state, filenames, cstate, copies >>
          ELSE LET names == initLogFileNames
               IN  /\ filenames' = names
                   /\ copies' = BeginCopyFrom(copies, FirstFile(names),
                                              BeginOptions)
                   /\ cstate' = Len(copies')
                   /\ fdw_state' = "festate"
                   /\ scanPhase' = "open"
    /\ UNCHANGED << plan_filenames, plan_options, returned, exhausted,
                    nRescans >>
    /\ UNCHANGED << spoolVars, fmtVars, planVars >>

\* the row NextCopyFrom reads next from reader c
NextRow(d, c) ==
    [ file |-> c.filename,
      rec  |-> IF c.filename = NULL THEN LogRecord(c.pos + 1)
               ELSE d[FileAt(d, c.filename)].data[c.pos + 1] ]

\* does NextCopyFrom find a row?  A reader of a file finds one while records
\* remain; what a reader of the client's input finds is up to the client.
Found(d, c, clientSends) ==
    IF c.filename = NULL THEN clientSends /\ c.pos < MaxRows
    ELSE Remaining(d, c) > 0

\* pglogIterateForeignScan: NextCopyFrom on the current reader, which splits
\* the line as its options say; a row found is stored in the slot, else the
\* slot stays empty.  An ERROR raised by
\* NextCopyFrom leaves the callback at once, by the host's longjmp.
IterateForeignScan ==
    /\ scanPhase = "open"
    /\ \E clientSends \in BOOLEAN :
          LET c == copies[cstate]
          IN  IF ~Found(disk, c, clientSends)
              THEN /\ exhausted' = TRUE
                   /\ UNCHANGED << returned, copies, scanPhase >>
              ELSE IF IsMalformed(Fields(NextRow(disk, c).rec, c.options))
              THEN /\ scanPhase' = "error"
                   /\ UNCHANGED << returned, copies, exhausted >>
              ELSE /\ returned' = Append(returned, NextRow(disk, c))
                   /\ copies' = [copies EXCEPT ![cstate].pos = @ + 1]
                   /\ exhausted' = FALSE
                   /\ UNCHANGED scanPhase
    /\ UNCHANGED << plan_filenames, plan_options, fdw_state, filenames,
                    cstate, nRescans >>
    /\ UNCHANGED << spoolVars, fmtVars, planVars >>

\* the options pglogReScanForeignScan hands to the reader: NIL
ReScanOptions == << >>

\* pglogReScanForeignScan
ReScanForeignScan ==
    /\ scanPhase = "open"
    /\ nRescans < MaxRescans
    /\ copies' = BeginCopyFrom(EndCopyFrom(copies, cstate),
                               FirstFile(filenames), ReScanOptions)
    /\ cstate' = Len(copies')
    /\ returned' = << >>
    /\ exhausted' = FALSE
    /\ nRescans' = nRescans + 1
    /\ UNCHANGED << plan_filenames, plan_options, fdw_state, filenames,
                    scanPhase >>
    /\ UNCHANGED << spoolVars, fmtVars, planVars >>

\* pglogEndForeignScan.  EndCopyFrom on a reader that was already ended
\* frees freed memory: the call goes unnoticed or the process aborts.
EndForeignScan ==
    /\ scanPhase \in { "open", "explain", "ended" }
    /\ fdw_state # NULL => copies[cstate].ends < MaxEnds
    /\ copies' = IF fdw_state # NULL THEN EndCopyFrom(copies, cstate)
                 ELSE copies
    /\ IF fdw_state # NULL /\ copies[cstate].ends > 0
       THEN scanPhase' \in { "ended", "crashed" }
       ELSE scanPhase' = "ended"
    /\ UNCHANGED << plan_filenames, plan_options, fdw_state, filenames,
                    cstate, returned, exhausted, nRescans >>
    /\ UNCHANGED << spoolVars, fmtVars, planVars >>

(***************************************************************************)
(* The estimator alone: the planner estimates the table again and again,   *)
(* each time finding a first file of another size.                         *)
(***************************************************************************)
\* the sizes of the first file: below BLCKSZ * 2^32 bytes, or that much more
FileSizes ==
    [ wraps : { 0, 1 },
      bytes : { 0, 100, BLCKSZ, 10240, 10 * BLCKSZ, 100 * BLCKSZ } ]

\* the tables the planner sees: never analyzed (pages = 0) or with the pages
\* and tuples of an ANALYZE, of some width, under some selectivity
BaseRels ==
    { rel \in [ pages : { 0, 10 }, tuples : { 0, 1000 }, width : { 1, 200 },
                sel : { [ num |-> 1, den |-> 1 ], [ num |-> 1, den |-> 3 ] },
                rows : { 0 } ] :
        rel.pages = 0 => rel.tuples = 0 }

\* is size a at most size b?
SizeLeq(a, b) ==
    a.wraps < b.wraps \/ (a.wraps = b.wraps /\ a.bytes <= b.bytes)

\* pglogGetForeignRelSize on a directory whose first file has that size
EstimateSize ==
    /\ Len(estimated) < MaxEstimates
    /\ \E st_size \in FileSizes :
          /\ baserel.pages = 0 => st_size.wraps = 0
          /\ LET e == estimate_size(baserel, st_size)
             IN  /\ plan_pages' = e.pages
                 /\ plan_ntuples' = e.ntuples
                 /\ baserel' = [baserel EXCEPT !.rows = e.rows]
                 /\ estimated' = Append(estimated,
                                        [ st_size |-> st_size,
                                          pages   |-> e.pages,
                                          ntuples |-> e.ntuples,
                                          rows    |-> e.rows ])
    /\ UNCHANGED << plan_filenames, plan_options, fdw_state, filenames,
                    cstate, copies, scanPhase, returned, exhausted,
                    nRescans >>
    /\ UNCHANGED << spoolVars, fmtVars >>

EstimateInit ==
    /\ SpoolQuiet
    /\ disk = << >>
    /\ PlanIdle
    /\ baserel \in BaseRels
    /\ plan_filenames = << >>
    /\ plan_options = << >>
    /\ fdw_state = NULL
    /\ filenames = << >>
    /\ cstate = 0
    /\ copies = << >>
    /\ scanPhase = "unopened"
    /\ returned = << >>
    /\ exhausted = FALSE
    /\ nRescans = 0

EstimateNext == EstimateSize

SpecEstimate == EstimateInit /\ [][EstimateNext]_vars


(***************************************************************************)
(* The scan as a state machine, over a log directory the host has filled.  *)
(***************************************************************************)
\* a file of the log directory with n records, the bad-th of them (if any)
\* malformed
LogFile(name, n, bad) ==
    [ path |-> Log_directory \o "/" \o name,
      data |-> [ k \in 1 .. n |-> IF k = bad THEN BadRecord
                                  ELSE LogRecord(k) ] ]

\* while a scan is open the host's logger starts a new log file, which the
\* directory enumerates first
LogFileCreated ==
    /\ scanPhase = "open"
    /\ FileAt(disk, Log_directory \o "/N.csv") = 0
    /\ disk' = << LogFile("N.csv", 1, 0) >> \o disk
    /\ UNCHANGED << Pglog_directory, Pglog_min_messages,
                    Pglog_spooling_enabled, prev_emit_log_hook,
                    emit_log_hook, currentSpoolfile, currentSpoolfileName,
                    spoolfileRotationRequired, log_line_number, log_my_pid,
                    MyProcPid, log_min_messages, clock, streams, crashed,
                    nEvents, nRequests, lastCall >>
    /\ UNCHANGED << scanVars, fmtVars, planVars >>

\* the names a scanned log directory holds
ScanNames == { "A.csv", "B.csv", "pglog-2021-01-01_000000.dat" }

\* the log directories of the scan: up to MaxScanFiles files, in any
\* enumeration order, each empty or of MaxRows - 1 or MaxRows records, of
\* which the one before the MaxRows-th may be malformed
ScanDirs ==
    { d \in UNION { [ 1 .. n -> [ name : ScanNames,
                                  rows : { 0, MaxRows - 1, MaxRows },
                                  bad : { 0, MaxRows - 1 } ] ] :
                    n \in 0 .. MaxScanFiles } :
        /\ \A i, j \in DOMAIN d : i # j => d[i].name # d[j].name
        /\ \A i \in DOMAIN d : d[i].bad <= d[i].rows }

ScanInit ==
    /\ SpoolQuiet
    /\ PlanIdle
    /\ baserel = NewRel
    /\ \E d \in ScanDirs :
          disk = [ i \in DOMAIN d |->
                     LogFile(d[i].name, d[i].rows, d[i].bad) ]
    /\ plan_filenames = << >>
    /\ plan_options \in { << >>, << "convert_selectively" >> }
    /\ fdw_state = NULL
    /\ filenames = << >>
    /\ cstate = 0
    /\ copies = << >>
    /\ scanPhase = "unopened"
    /\ returned = << >>
    /\ exhausted = FALSE
    /\ nRescans = 0

ScanNext ==
    \/ BeginForeignScan
    \/ IterateForeignScan
    \/ ReScanForeignScan
    \/ EndForeignScan
    \/ LogFileCreated

SpecScan == ScanInit /\ [][ScanNext]_vars


(***************************************************************************)
(* File discovery alone, over directories large enough to reach the cap:   *)
(* the planner lists a log directory of up to MaxDirEntries entries, of    *)
(* which up to MaxOther are not csv logs.                                  *)
(***************************************************************************)
\* the name of the k-th entry, by its kind
KindName(kind, k) ==
    CASE kind = "log" -> "postgresql-" \o ToString(k) \o ".csv"
      [] kind = "seg" -> "pglog-" \o ToString(k) \o ".dat"
      [] kind = "dot" -> ".csv"

\* the ways to pick the entries that are not csv logs: each a function from
\* their positions to "seg" (a spooler segment) or "dot" (the file named
\* just ".csv", which a directory holds at most once)
OtherEntries(n) ==
    { o \in UNION { [ S -> { "seg", "dot" } ] :
                    S \in { T \in SUBSET (1 .. n) : Cardinality(T) <= MaxOther } } :
        Cardinality({ k \in DOMAIN o : o[k] = "dot" }) <= 1 }

CatalogDir(n, o) ==
    [ k \in 1 .. n |->
        [ path |-> Log_directory \o "/" \o
                     KindName(IF k \in DOMAIN o THEN o[k] ELSE "log", k),
          data |-> << >> ] ]

CatalogInit ==
    /\ SpoolQuiet
    /\ PlanIdle
    /\ baserel = NewRel
    /\ \E n \in 0 .. MaxDirEntries : \E o \in OtherEntries(n) :
          disk = CatalogDir(n, o)
    /\ plan_filenames = << >>
    /\ plan_options = << >>
    /\ fdw_state = NULL
    /\ filenames = << >>
    /\ cstate = 0
    /\ copies = << >>
    /\ scanPhase = "unopened"
    /\ returned = << >>
    /\ exhausted = FALSE
    /\ nRescans = 0

CatalogNext == GetForeignRelSize

SpecCatalog == CatalogInit /\ [][CatalogNext]_vars


(***************************************************************************)
(* Properties.                                                             *)
(***************************************************************************)
\* the exit the last top-level call of the hook took ("" before any call)
LastExit == IF lastCall.trace = << >> THEN "" ELSE lastCall.trace[1]

\* this step is a top-level call of the hook
HookStep == nEvents' = nEvents + 1

\* the streams that are open
OpenStreams == { i \in DOMAIN streams : streams[i].open }

\* the entries of an array of names
Names(array) == { array[i] : i \in DOMAIN array } \ { NULL }

\* all the rows of the listed files, file by file in the order of the list
RECURSIVE AllRows(_, _)
AllRows(d, names) ==
    IF names = << >> THEN << >>
    ELSE LET f == Head(names)
             rows == IF f = NULL \/ FileAt(d, f) = 0 THEN << >>
                     ELSE [ k \in DOMAIN d[FileAt(d, f)].data |->
                              [ file |-> f, rec |-> d[FileAt(d, f)].data[k] ] ]
         IN  rows \o AllRows(d, Tail(names))

\* C1: a scan read to exhaustion has returned every row of every listed
\* file, all of one file's rows before any of the next file's (files A with
\* 2 records and B with 3 give 5 rows): at the end of a file that is not the
\* last of the list the scan goes on with the next file.
C1_MultiFileScanOrdering ==
    (scanPhase = "open" /\ exhausted) => returned = AllRows(disk, filenames)

\* C2: after a short write spooling is disabled, and no step taken while
\* spooling is disabled changes any file on disk.
C2_DisableOnFailure ==
    [][ /\ (HookStep /\ LastExit' = "short") => ~Pglog_spooling_enabled'
        /\ ~Pglog_spooling_enabled => disk' = disk ]_vars

\* C2 witness: a short write left part of a record on disk, and a later
\* event found the spooler disabled.
C2_Witness ==
    /\ ~Pglog_spooling_enabled
    /\ LastExit = "disabled"
    /\ \E i \in DOMAIN disk : \E k \in DOMAIN disk[i].data :
          Len(disk[i].data[k]) = 1

\* C3: with spooling disabled, a rotation pending and a directory set, the
\* next event at or above the minimum severity makes the hook rotate; when
\* the record is then written, spooling is enabled again.
C3_RecoveryByRotation ==
    [][ ( /\ HookStep
          /\ ~Pglog_spooling_enabled
          /\ spoolfileRotationRequired
          /\ Pglog_directory # NULL /\ strlen(Pglog_directory) > 0
          /\ is_log_level_output(lastCall'.edata.elevel, Pglog_min_messages) )
        => ( /\ lastCall'.rotated
             /\ LastExit' = "written" => Pglog_spooling_enabled' ) ]_vars

\* C4: two segments opened in answer to different rotation requests, each
\* written to successfully, are different files.
C4_RotationDistinctSegments ==
    \A i, j \in DOMAIN streams :
        ( /\ streams[i].req # streams[j].req
          /\ streams[i].wrote /\ streams[j].wrote )
        => streams[i].path # streams[j].path

\* C5: the hook rotates only when no segment is held or a rotation was
\* requested after the current segment was opened.
C5_RotationOnlyOnSignal ==
    [][ (HookStep /\ lastCall'.rotated)
        => ( \/ currentSpoolfile = NOFILE
             \/ streams[currentSpoolfile].req < nRequests ) ]_vars

\* how often e occurs in seq
Occurrences(seq, e) == Cardinality({ i \in DOMAIN seq : seq[i] = e })

\* C6: whatever exit a call of the hook takes, the previous hook, if there
\* is one, has been called exactly once with the event of that call.
C6_PreviousHookAlwaysCalled ==
    (nEvents > 0 /\ prev_emit_log_hook # NULL)
        => Occurrences(lastCall.sink, lastCall.edata) = 1

\* C7: at most one segment is open for writing.
C7_AtMostOneOpenSegment == Cardinality(OpenStreams) <= 1

\* C7 witness: a second segment has been opened, the first one is closed.
C7_Witness ==
    /\ Len(streams) >= 2
    /\ ~streams[1].open
    /\ streams[2].open

\* C8: when the catalog lists no file, the scan opens no reader and returns
\* no row.
C8_EmptyCatalogIsEmptyResult ==
    (scanPhase = "open" /\ FirstFile(filenames) = NULL)
        => ( /\ \A c \in DOMAIN copies : ~copies[c].open
             /\ returned = << >> )

\* the directories the spooler writes segments to
SpoolDirs == { dir \in Directories : dir # NULL /\ strlen(dir) > 0 }

\* C9: every segment the spooler has created in a spool directory is among
\* the files the catalog lists in that directory.
C9_SegmentsDiscoverable ==
    \A i \in DOMAIN streams : \A dir \in SpoolDirs :
        EntryName(dir, streams[i].path) # ""
            => streams[i].path \in Names(ListLogFiles(disk, dir))

\* the first n elements of seq
Take(seq, n) == SubSeq(seq, 1, IF n < Len(seq) THEN n ELSE Len(seq))

\* the array of the first MAX_LOG_FILES of the names in hits, as paths in
\* directory dir, the unused places NULL
Expected(hits, dir) ==
    LET first == Take(hits, MAX_LOG_FILES)
    IN  [ i \in 1 .. MAX_LOG_FILES |->
            IF i <= Len(first) THEN dir \o "/" \o first[i] ELSE NULL ]

\* name ends with the suffix ".csv"
EndsWithCsv(name) ==
    Len(name) >= 4 /\ SubSeq(name, Len(name) - 3, Len(name)) = ".csv"

\* name is longer than the suffix ".csv" and ends with it
CsvWithStem(name) ==
    Len(name) > 4 /\ SubSeq(name, Len(name) - 3, Len(name)) = ".csv"

\* C10 as stated: the list is the first min(16, m) entries, in enumeration
\* order, whose name ends with the suffix.
C10_ListIsSuffixMatches ==
    plan_filenames # << >>
        => plan_filenames =
               Expected(SelectSeq(ReadDir(disk, Log_directory), EndsWithCsv),
                        Log_directory)

\* C10 as amended: the list is the first min(16, m) entries, in enumeration
\* order, whose name is longer than the suffix ".csv" and ends with it.
C10_ListIsStemmedSuffixMatches ==
    plan_filenames # << >>
        => plan_filenames =
               Expected(SelectSeq(ReadDir(disk, Log_directory), CsvWithStem),
                        Log_directory)

\* C10 witness: a directory with more than 16 csv logs, a segment and the
\* file ".csv" has been listed, and the list is full.
C10_Witness ==
    /\ plan_filenames # << >>
    /\ plan_filenames[MAX_LOG_FILES] # NULL
    /\ Len(SelectSeq(ReadDir(disk, Log_directory), CsvWithStem)) > MAX_LOG_FILES
    /\ \E i \in DOMAIN disk : disk[i].path = Log_directory \o "/.csv"
    /\ \E i \in DOMAIN disk : ~EndsWithCsv(EntryName(Log_directory, disk[i].path))

\* C11: a reset closes the reader that was open, keeps the file list of
\* open() as it is, and opens a reader at the start of the first file of
\* that list; the pass after the reset starts again at the first record of
\* that file: the first read after the reset, of a record that is a
\* well-formed log record, returns that record.
C11_ResetRestartsFirstFile ==
    [][ /\ nRescans' = nRescans + 1
           => /\ filenames' = filenames
              /\ ~copies'[cstate].open
              /\ \A c \in DOMAIN copies' : copies'[c].open <=> c = cstate'
              /\ copies'[cstate'].filename = FirstFile(filenames)
              /\ copies'[cstate'].pos = 0
        /\ ( /\ nRescans > 0 /\ nRescans' = nRescans
             /\ scanPhase = "open" /\ Len(returned) = 0
             /\ scanPhase' = "error" \/ returned' # returned
             /\ ~IsMalformed(NextRow(disk, copies[cstate]).rec) )
           => returned' = << NextRow(disk, [filename |-> FirstFile(filenames),
                                           pos |-> 0]) >> ]_vars

\* C12: whatever the number of calls of close, no reader is released twice
\* and the process goes on.
C12_CloseTwiceIsSafe ==
    /\ scanPhase # "crashed"
    /\ \A c \in DOMAIN copies : copies[c].ends <= 1

\* C13: when a read fails, the reader is closed by the time the error
\* reaches the caller.
C13_ReadFailureClosesReader ==
    scanPhase = "error" => ~copies[cstate].open

\* the CSV rules of the reader: cells are separated by commas, records end
\* at a newline; a quote opens and closes a quoted stretch, in which commas
\* and newlines are data and a doubled quote is one quote.  The result is
\* the sequence of records, each the sequence of its cells.
EmptyCell == [ quoted |-> FALSE, text |-> "" ]

\* reads one cell of str from position i on: the cell, the position after
\* its end and what ended it ("," or "\n", "" at the end of str)
RECURSIVE ReadCell(_, _, _, _)
ReadCell(str, i, inq, cell) ==
    IF i > Len(str) THEN [ cell |-> cell, next |-> i, by |-> "" ]
    ELSE LET c == SubSeq(str, i, i)
         IN  IF inq
             THEN IF c # "\""
                  THEN ReadCell(str, i + 1, TRUE, [cell EXCEPT !.text = @ \o c])
                  ELSE IF i < Len(str) /\ SubSeq(str, i + 1, i + 1) = "\""
                  THEN ReadCell(str, i + 2, TRUE,
                                [cell EXCEPT !.text = @ \o "\""])
                  ELSE ReadCell(str, i + 1, FALSE, cell)
             ELSE CASE c = "\"" ->
                         ReadCell(str, i + 1, TRUE,
                                  [cell EXCEPT !.quoted = TRUE])
                    [] c \in { ",", "\n" } ->
                         [ cell |-> cell, next |-> i + 1, by |-> c ]
                    [] OTHER ->
                         ReadCell(str, i + 1, FALSE,
                                  [cell EXCEPT !.text = @ \o c])

RECURSIVE ParseFrom(_, _, _, _)
ParseFrom(str, i, cells, records) ==
    IF i > Len(str)
    THEN IF cells = << >> THEN records ELSE Append(records, cells)
    ELSE LET r == ReadCell(str, i, FALSE, EmptyCell)
         IN  CASE r.by = ","  ->
                     ParseFrom(str, r.next, Append(cells, r.cell), records)
               [] r.by = "\n" ->
                     ParseFrom(str, r.next, << >>,
                               Append(records, Append(cells, r.cell)))
               [] OTHER -> Append(records, Append(cells, r.cell))

ParseCSV(str) == ParseFrom(str, 1, << >>, << >>)

\* the columns of a record, in order
Columns ==
    << "log_time", "user_name", "database_name", "process_id",
       "connection_from", "session_id", "session_line_num", "command_tag",
       "session_start_time", "virtual_transaction_id", "transaction_id",
       "error_severity", "sql_state_code", "message", "detail", "hint",
       "internal_query", "internal_query_pos", "context", "query",
       "query_pos", "location", "application_name" >>

\* the number of the column of that name
Col(name) == CHOOSE i \in DOMAIN Columns : Columns[i] = name

\* the last record formatted, as the reader splits it
LastCells == ParseCSV(lastLine.text)[1]

\* the text of a value as a cell holds it: nothing for NULL
CellText(v) == IF v = NULL THEN "" ELSE v

\* C14: the first record a process formats has line number 1, each next
\* one of the same process id the number after, and the first one after the
\* process id changed has number 1 again; the number is the record's
\* seventh cell.
C14_SequenceNumbers ==
    /\ \A i \in DOMAIN numbers :
          numbers[i].number =
              IF i > 1 /\ numbers[i - 1].pid = numbers[i].pid
              THEN numbers[i - 1].number + 1 ELSE 1
    /\ numbers # << >> =>
          LastCells[Col("session_line_num")].text =
              ToString(numbers[Len(numbers)].number)

\* C14 witness: a process formatted records 1 and 2, then a process of
\* another id formatted its record 1.
C14_Witness ==
    /\ Len(numbers) >= 3
    /\ numbers[1].pid = numbers[2].pid
    /\ numbers[2].number = 2
    /\ numbers[3].pid # numbers[2].pid
    /\ numbers[3].number = 1

C16_CellRoundTrip ==
    (csvCell.done /\ csvCell.data # NULL) =>
        ParseCSV(csvCell.buf \o "\n") =
            << << [ quoted |-> TRUE, text |-> csvCell.data ] >> >>

\* C16 witness: a cell has been made of a text with a quote, a comma and a
\* newline.
C16_Witness ==
    /\ csvCell.done
    /\ csvCell.data = "\",\n\""

\* C17: the query cell holds the statement if the event does not hide it, a
\* statement is at hand and the severity passes the threshold of statement
\* logging, and is empty otherwise; the query position cell holds the
\* cursor position if the statement is written and the position is
\* positive, and is empty otherwise.
C17_QueryTextAndPosition ==
    lastLine # NoLine =>
        LET cells == LastCells
            edata == lastLine.edata
            env   == lastLine.env
            shown == /\ ~edata.hide_stmt
                     /\ env.debug_query_string # NULL
                     /\ is_log_level_output(edata.elevel,
                                            env.log_min_error_statement)
        IN  /\ cells[Col("query")] =
                   IF shown
                   THEN [ quoted |-> TRUE, text |-> env.debug_query_string ]
                   ELSE EmptyCell
            /\ cells[Col("query_pos")] =
                   IF shown /\ edata.cursorpos > 0
                   THEN [ quoted |-> FALSE, text |-> ToString(edata.cursorpos) ]
                   ELSE EmptyCell

\* C17 witness: a record with the statement and its cursor position has been
\* formatted.
C17_Witness ==
    /\ lastLine # NoLine
    /\ ~lastLine.edata.hide_stmt
    /\ lastLine.edata.cursorpos > 0
    /\ LastCells[Col("query")].quoted
    /\ LastCells[Col("query_pos")].text # ""

\* the severities from the least to the most severe
SeverityOrder ==
    << DEBUG5, DEBUG4, DEBUG3, DEBUG2, DEBUG1, INFO, NOTICE, WARNING, ERROR,
       LOG, FATAL, PANIC >>

\* the place of a level in that order; a COMMERROR event has severity LOG
Rank(level) ==
    LET l == IF level = COMMERROR THEN LOG ELSE level
    IN  CHOOSE i \in DOMAIN SeverityOrder : SeverityOrder[i] = l

\* C18: with spooling enabled and a directory set, an event below the
\* minimum severity formats and writes nothing and opens, closes or rotates
\* no segment, and an event at or above it goes on to the write path.
C18_SeverityFilter ==
    [][ ( /\ HookStep
          /\ Pglog_spooling_enabled
          /\ Pglog_directory # NULL
          /\ strlen(Pglog_directory) > 0 )
        => IF Rank(lastCall'.edata.elevel) < Rank(Pglog_min_messages)
           THEN /\ disk' = disk
                /\ streams' = streams
                /\ currentSpoolfile' = currentSpoolfile
                /\ log_line_number' = log_line_number
                /\ ~lastCall'.rotated
           ELSE LastExit' # "below" ]_vars

\* C18 witness: an ERROR event has come under the minimum LOG while a
\* segment was open and a rotation pending.
C18_Witness ==
    /\ LastExit = "below"
    /\ lastCall.edata.elevel = ERROR
    /\ Pglog_min_messages = LOG
    /\ Pglog_spooling_enabled
    /\ Pglog_directory = "/spool"
    /\ spoolfileRotationRequired
    /\ currentSpoolfile # NOFILE

\* C19: of two estimates for the same table, the one for the file of the
\* larger size has at least as many tuples, with statistics and without.
C19_EstimatorMonotonicity ==
    \A i, j \in DOMAIN estimated :
        SizeLeq(estimated[i].st_size, estimated[j].st_size)
            => estimated[i].ntuples <= estimated[j].ntuples

\* C20 as stated: a file of 10240 bytes, no statistics and a row width of
\* 200 bytes give 51 tuples.
C20_TenKiBGives51 ==
    \A i \in DOMAIN estimated :
        ( /\ baserel.pages = 0
          /\ baserel.width = 200
          /\ estimated[i].st_size = [ wraps |-> 0, bytes |-> 10240 ] )
        => estimated[i].ntuples = 51

\* C20, with the tuple header the code adds to the width: a file of 10240
\* bytes, no statistics and a row width of 200 bytes give 10240 / (200 + 24)
\* rounded, 46 tuples.
C20_TenKiBGives46 ==
    \A i \in DOMAIN estimated :
        ( /\ baserel.pages = 0
          /\ baserel.width = 200
          /\ estimated[i].st_size = [ wraps |-> 0, bytes |-> 10240 ] )
        => estimated[i].ntuples = 46

\* C20 witness: a never analyzed table of width 200 has been estimated on a
\* file of 10240 bytes.
C20_Witness ==
    /\ baserel.pages = 0
    /\ baserel.width = 200
    /\ \E i \in DOMAIN estimated :
          estimated[i].st_size = [ wraps |-> 0, bytes |-> 10240 ]

\* C21: a call of the hook in which the open of a segment fails, on the
\* first write or in a rotation, leaves spooling disabled, no segment held
\* and none open, and the disk as it was (the record of the event is not
\* written); and spooling, once disabled, is disabled after every step.
C21_OpenFailureDisables ==
    [][ /\ (HookStep /\ LastExit' = "openfail")
           => /\ ~Pglog_spooling_enabled'
              /\ currentSpoolfile' = NOFILE
              /\ OpenStreams' = {}
              /\ disk' = disk
        /\ ~Pglog_spooling_enabled => ~Pglog_spooling_enabled' ]_vars

\* C21 witness: a segment was opened and written to, and the rotation of
\* the next event closed it and failed to open another.
C21_Witness ==
    /\ Len(streams) = 1
    /\ streams[1].wrote
    /\ ~streams[1].open
    /\ lastCall.rotated
    /\ LastExit = "openfail"
    /\ ~Pglog_spooling_enabled
    /\ currentSpoolfile = NOFILE

\* C22: once the spooler has been shut down (pglog_spool_fini has taken the
\* hook out again after events were delivered), no segment is open in the
\* process.
C22_ShutdownReleasesSegment ==
    (nEvents > 0 /\ emit_log_hook # "pglog_emit_log_hook")
        => OpenStreams = {}

\* C23: a current segment handle that is not NULL is a stream that is
\* open, and the process has not been aborted by the close of, or a write
\* to, a stream it had closed.
C23_NoUseOfClosedHandle ==
    /\ ~crashed
    /\ currentSpoolfile # NOFILE => streams[currentSpoolfile].open

\* does text begin with prefix?
StartsWith(text, prefix) ==
    /\ Len(text) >= Len(prefix)
    /\ SubSeq(text, 1, Len(prefix)) = prefix

\* C24: the log_time cell of each record is the time of the clock when the
\* record is formatted, so records formatted at different clock times
\* carry different timestamps.
C24_TimestampFreshness ==
    [][ Len(numbers') = Len(numbers) + 1
        => StartsWith(lastLine'.text, FormatLogTime(clock) \o ",") ]_vars

\* C25: every reader of a scan, the one opened by reset() as the one opened
\* by open(), has the options pglogBeginForeignScan makes: the csv format
\* and what the plan carries.
C25_ResetPreservesOptions ==
    \A c \in DOMAIN copies : copies[c].options = BeginOptions

\* C26: an assignment of pglog.directory sets the pending-rotation flag and
\* leaves the current segment handle, the enabled flag, the open streams
\* and the files on disk as they were; the next event the hook sets out to
\* write (spooling enabled, a directory set, the level at or above the
\* minimum) is the one that rotates, unless the process is aborted in it.
C26_AssignOnlyMarksRotation ==
    [][ /\ nRequests' = nRequests + 1
           => /\ spoolfileRotationRequired'
              /\ UNCHANGED << currentSpoolfile, Pglog_spooling_enabled,
                              streams, disk >>
        /\ ( /\ HookStep
             /\ spoolfileRotationRequired
             /\ Pglog_spooling_enabled
             /\ Pglog_directory # NULL /\ strlen(Pglog_directory) > 0
             /\ is_log_level_output(lastCall'.edata.elevel,
                                    Pglog_min_messages)
             /\ ~crashed' )
           => lastCall'.rotated ]_vars

\* C26 witness: the directory was assigned while a segment opened under an
\* earlier assignment was open and written to, and that segment is still
\* the current one.
C26_Witness ==
    /\ spoolfileRotationRequired
    /\ currentSpoolfile # NOFILE
    /\ streams[currentSpoolfile].open
    /\ streams[currentSpoolfile].wrote
    /\ streams[currentSpoolfile].req < nRequests

C28_NameIsOpenSegmentPath ==
    (currentSpoolfile # NOFILE /\ streams[currentSpoolfile].open)
        => currentSpoolfileName = streams[currentSpoolfile].path

=============================================================================
